---- MODULE Spec2Model ----
(***************************************************************************)
(* The notebook 8_chainer-for-theano-users.ipynb as a state machine: one   *)
(* interactive session (a kernel with one user namespace), whose           *)
(* operations are the executions of the notebook's code cells.  A cell is  *)
(* a sequence of statements; running it executes them in order until one   *)
(* raises.  Values are abstracted to their kind and shape: the numbers     *)
(* held by arrays are random in the notebook (np.random) and no claim is   *)
(* about them.                                                             *)
(***************************************************************************)
EXTENDS Integers, Sequences, FiniteSets, TLC

VARIABLES
    ns,               \* the session's namespace: name -> value
    execution_count,  \* the kernel's execution counter
    In,               \* the cell executed last ("" before the first)
    outputs,          \* outputs of the cell executed last: error, stdout, stderr
    registry,         \* warnings already shown once (the warning registry)
    lit               \* the literals of the convolution cells: image and filter shape

vars == <<ns, execution_count, In, outputs, registry, lit>>

----------------------------------------------------------------------------
(* Bounds of the model *)

MaxExec == 10    \* cell executions in one session
MaxBatch == 2    \* batch size N of a generalised image shape
MaxChan == 2     \* channels C and O of a generalised shape
MaxSize == 2     \* spatial sizes H, W of a generalised image shape
MaxLen == 2      \* length of a vector handed to the wrapped Theano function
MaxVal == 1      \* vector elements range over -MaxVal..MaxVal

----------------------------------------------------------------------------
(* Values *)

Names == {"np", "theano", "T", "chainer", "F", "L",
          "TheanoConvolutionLayer", "batchsize", "input_shape", "filter_shape",
          "x", "input", "conv", "f", "x_data", "y",
          "ChainerConvolutionLayer", "chainer_conv", "conv_link",
          "z", "w", "MyNetworkWithTheanoConvolution"}

Unbound == [kind |-> "unbound"]
Module(name) == [kind |-> "module", name |-> name]
Class(name) == [kind |-> "class", name |-> name]
PyInt(n) == [kind |-> "int", value |-> n]
Tuple(s) == [kind |-> "tuple", value |-> s]
Ndarray(shape) == [kind |-> "numpy.ndarray", shape |-> shape, dtype |-> "float32"]
Variable(array) == [kind |-> "chainer.variable.Variable", array |-> array]
\* a one-dimensional array together with its elements
Vector(data) ==
    [kind |-> "numpy.ndarray", shape |-> <<Len(data)>>, dtype |-> "float32", data |-> data]

\* A node of a Theano graph: symbolic, it holds no data.  attr: the name of a
\* leaf, the identity of an unnamed leaf, the pattern of a dimshuffle.
TensorVariable(op, args, ndim, attr) ==
    [kind |-> "TensorVariable", op |-> op, args |-> args, ndim |-> ndim, attr |-> attr]
\* theano.shared(value): a parameter buffer, a leaf of the graph.
SharedVariable(shape) ==
    [kind |-> "SharedVariable", shape |-> shape, dtype |-> "float32"]
\* chainer.Parameter(initializer, shape)
Parameter(initializer, shape) ==
    [kind |-> "chainer.Parameter", initializer |-> initializer, shape |-> shape]

Bound(n, name) == n[name].kind # "unbound"

----------------------------------------------------------------------------
(* The literals of the cells *)

\* batchsize = 32; (batchsize, 1, 28, 28); (6, 1, 5, 5); rand(32, 1, 28, 28);
\* Convolution2D(in_channels=1, out_channels=6, ksize=(5, 5))
\* The notebook calls the wrapped Theano function nowhere: no vectors a, b.
NotebookLit == [image |-> <<32, 1, 28, 28>>, filter |-> <<6, 1, 5, 5>>, a |-> <<>>, b |-> <<>>]

\* The same cells with other sizes: image (N,C,H,W), filter (O,C,kh,kw), kh<=H, kw<=W
GeneralLit ==
    { [image |-> <<N, C, H, W>>, filter |-> <<O, C, kh, kw>>, a |-> <<>>, b |-> <<>>] :
        N \in 1..MaxBatch, C \in 1..MaxChan, O \in 1..MaxChan,
        H \in 1..MaxSize, W \in 1..MaxSize, kh \in 1..MaxSize, kw \in 1..MaxSize }

ValidLit == { l \in GeneralLit : l.filter[3] <= l.image[3] /\ l.filter[4] <= l.image[4] }

\* Vectors of at most MaxLen elements of 0..MaxVal
RECURSIVE Vectors(_)
Vectors(n) ==
    IF n = 0 THEN {<<>>}
    ELSE Vectors(n - 1) \cup { Append(v, e) : v \in { u \in Vectors(n - 1) : Len(u) = n - 1 }, e \in 0..MaxVal }

\* The notebook's literals with a pair of vectors to hand to the wrapped function
VectorLit ==
    { [NotebookLit EXCEPT !.a = va, !.b = vb] : va \in Vectors(MaxLen), vb \in Vectors(MaxLen) }

----------------------------------------------------------------------------
(* What the two frameworks compute, as far as shapes go *)

\* Faulty variant: border_mode='full' instead of the default 'valid'.
T_nnet_conv2d_full(image, filters) ==
    <<image[1], filters[1], image[3] + filters[3] - 1, image[4] + filters[4] - 1>>

\* T.nnet.conv2d(input, filters) with the defaults border_mode='valid',
\* subsample=(1, 1): image (N,C,H,W), filters (O,C,kh,kw)
T_nnet_conv2d(image, filters) ==
    <<image[1], filters[1], image[3] - filters[3] + 1, image[4] - filters[4] + 1>>

\* b.dimshuffle('x', 0, 'x', 'x'): 'x' is a new broadcastable axis of size 1,
\* "0" is axis 0 of the operand
dimshuffle(shape, pattern) ==
    [i \in 1..Len(pattern) |-> IF pattern[i] = "x" THEN 1 ELSE shape[1]]

\* Elementwise + and -: the operands' shapes must agree, a size-1 axis broadcasts.
Broadcastable(s, t) ==
    /\ Len(s) = Len(t)
    /\ \A i \in 1..Len(s) : s[i] = t[i] \/ s[i] = 1 \/ t[i] = 1

Broadcast(s, t) ==
    [i \in 1..Len(s) |-> IF s[i] = 1 THEN t[i] ELSE s[i]]

\* chainer.utils.conv.get_conv_outsize(size, k, s, p)
get_conv_outsize(size, k, s, p) == (size + 2 * p - k) \div s + 1

\* F.convolution_2d(x, W, b) with the defaults stride=1, pad=0: the type check
\* of the function (4 dimensions, matching channels) and the shape of its output
convolution_2d_ok(x, W, b) ==
    /\ Len(x) = 4 /\ Len(W) = 4 /\ Len(b) = 1
    /\ x[2] = W[2] /\ b[1] = W[1]
    /\ W[3] <= x[3] /\ W[4] <= x[4]

convolution_2d(x, W, b) ==
    <<x[1], W[1], get_conv_outsize(x[3], W[3], 1, 0), get_conv_outsize(x[4], W[4], 1, 0)>>

\* The shape of the value of a graph node when the node `given` has a value of
\* shape `shape`; <<>> when the graph cannot be evaluated.
RECURSIVE ShapeOf(_, _, _)
ShapeOf(node, given, shape) ==
    IF node = given THEN shape
    ELSE IF node.kind = "SharedVariable" THEN node.shape
    ELSE IF node.kind # "TensorVariable" THEN <<>>
    ELSE IF node.op = "conv2d" THEN
        LET i == ShapeOf(node.args[1], given, shape)
            k == ShapeOf(node.args[2], given, shape)
        IN  IF Len(i) = 4 /\ Len(k) = 4 /\ i[2] = k[2] /\ k[3] <= i[3] /\ k[4] <= i[4]
            THEN T_nnet_conv2d(i, k) ELSE <<>>
    ELSE IF node.op = "dimshuffle" THEN
        LET a == ShapeOf(node.args[1], given, shape)
        IN  IF Len(a) = 1 THEN dimshuffle(a, node.attr) ELSE <<>>
    ELSE IF node.op \in {"add", "sub"} THEN
        LET a == ShapeOf(node.args[1], given, shape)
            b == ShapeOf(node.args[2], given, shape)
        IN  IF a # <<>> /\ b # <<>> /\ Broadcastable(a, b) THEN Broadcast(a, b) ELSE <<>>
    ELSE <<>>

\* The value of a graph of elementwise operations on vectors, the leaves taking
\* their values from env (leaf identity -> vector); error on a length mismatch.
RECURSIVE Perform(_, _)
Perform(node, env) ==
    IF node.op = "fvector" THEN [error |-> FALSE, data |-> env[node.attr]]
    ELSE LET a == Perform(node.args[1], env)
             b == Perform(node.args[2], env)
         IN  IF a.error \/ b.error \/ Len(a.data) # Len(b.data)
             THEN [error |-> TRUE, data |-> <<>>]
             ELSE IF node.op = "add"
             THEN [error |-> FALSE, data |-> [i \in 1..Len(a.data) |-> a.data[i] + b.data[i]]]
             ELSE [error |-> FALSE, data |-> [i \in 1..Len(a.data) |-> a.data[i] - b.data[i]]]

----------------------------------------------------------------------------
(* The classes the notebook defines and the framework classes it constructs *)

\* x + y and x - y on symbols: a node of the graph, nothing is computed
tensor_add(a, b) == TensorVariable("add", <<a, b>>, a.ndim, <<>>)
\* Faulty variant: the operands of the difference exchanged.
tensor_sub_swapped(a, b) == TensorVariable("sub", <<b, a>>, a.ndim, <<>>)
tensor_sub(a, b) == TensorVariable("sub", <<a, b>>, a.ndim, <<>>)

\* Faulty variant: the layer computes its output when it is constructed
\* (define-by-run), on a buffer of the image's shape, instead of describing it.
TheanoConvolutionLayer_init_eager(input, filter_shape, image_shape) ==
    LET W == SharedVariable(filter_shape)
        b == SharedVariable(<<filter_shape[1]>>)
    IN  [kind |-> "TheanoConvolutionLayer", W |-> W, b |-> b,
         output |-> Ndarray(<<image_shape[1], filter_shape[1],
                              image_shape[3] - filter_shape[3] + 1,
                              image_shape[4] - filter_shape[4] + 1>>),
         params |-> <<W, b>>]

\* Faulty variant: the bias is laid along the wrong axis, dimshuffle('x', 'x', 0, 'x').
TheanoConvolutionLayer_init_wrong_axis(input, filter_shape, image_shape) ==
    LET W == SharedVariable(filter_shape)
        b == SharedVariable(<<filter_shape[1]>>)
        conv_out == TensorVariable("conv2d", <<input, W>>, 4, <<>>)
        output == TensorVariable("add",
                      <<conv_out, TensorVariable("dimshuffle", <<b>>, 4, <<"x", "x", "0", "x">>)>>,
                      4, <<>>)
    IN  [kind |-> "TheanoConvolutionLayer", W |-> W, b |-> b,
         output |-> output, params |-> <<W, b>>]

\* TheanoConvolutionLayer.__init__(self, input, filter_shape, image_shape)
TheanoConvolutionLayer_init(input, filter_shape, image_shape) ==
    LET W == SharedVariable(filter_shape)
        b == SharedVariable(<<filter_shape[1]>>)
        conv_out == TensorVariable("conv2d", <<input, W>>, 4, <<>>)
        output == tensor_add(conv_out,
                      TensorVariable("dimshuffle", <<b>>, 4, <<"x", "0", "x", "x">>))
    IN  [kind |-> "TheanoConvolutionLayer", W |-> W, b |-> b,
         output |-> output, params |-> <<W, b>>]

\* theano.function(inputs, output): the compiled operator
theano_function(inputs, output) ==
    [kind |-> "theano.Function", inputs |-> inputs, output |-> output]

\* ChainerConvolutionLayer.__init__(self, filter_shape)
ChainerConvolutionLayer_init(filter_shape) ==
    [kind |-> "chainer.Link", class |-> "ChainerConvolutionLayer",
     W |-> Parameter("LeCunUniform", filter_shape),
     b |-> Parameter("Zero", <<filter_shape[1]>>)]

\* Faulty variant: in_channels and out_channels exchanged in the weight's shape.
Convolution2D_init_swapped(in_channels, out_channels, ksize) ==
    [kind |-> "chainer.Link", class |-> "Convolution2D",
     W |-> Parameter("default", <<in_channels, out_channels, ksize[1], ksize[2]>>),
     b |-> Parameter("Zero", <<out_channels>>)]

\* L.Convolution2D(in_channels, out_channels, ksize): W has shape
\* (out_channels, in_channels, kh, kw), b has shape (out_channels,)
Convolution2D_init(in_channels, out_channels, ksize) ==
    [kind |-> "chainer.Link", class |-> "Convolution2D",
     W |-> Parameter("default", <<out_channels, in_channels, ksize[1], ksize[2]>>),
     b |-> Parameter("Zero", <<out_channels>>)]

\* L.TheanoFunction(inputs, outputs): a link without parameters
TheanoFunction_init(ins, outs) ==
    [kind |-> "chainer.Link", class |-> "TheanoFunction",
     inputs |-> ins, outputs |-> outs, params |-> <<>>]

\* The result of a call: a value, or the error the framework raises.
Returns(v) == [error |-> "none", value |-> v]
Raises(e) == [error |-> e, value |-> Unbound]

\* ChainerConvolutionLayer.__call__ and Convolution2D.__call__:
\* F.convolution_2d(x, self.W, self.b)
Link_call(link, x) ==
    IF x.kind = "numpy.ndarray" /\ convolution_2d_ok(x.shape, link.W.shape, link.b.shape)
    THEN Returns(Variable(Ndarray(convolution_2d(x.shape, link.W.shape, link.b.shape))))
    ELSE Raises("InvalidType")

\* Calling the compiled Theano operator with one value per declared input
Function_call(fn, args) ==
    IF Len(args) # Len(fn.inputs) THEN Raises("TypeError")
    ELSE IF args[1].kind # "numpy.ndarray" \/ Len(args[1].shape) # fn.inputs[1].ndim
         THEN Raises("TypeError")
    ELSE LET s == ShapeOf(fn.output, fn.inputs[1], args[1].shape)
         IN  IF s = <<>> THEN Raises("ValueError") ELSE Returns(Ndarray(s))

\* TheanoFunction.__call__(*args): one vector per declared input, one result per
\* declared output, in the declared order.  Which exception class the framework
\* raises on a wrong call is not distinguished further.
TheanoFunction_call(link, args) ==
    IF Len(args) # Len(link.inputs) THEN Raises("TypeError")
    ELSE IF \E i \in 1..Len(args) : ~("data" \in DOMAIN args[i]) THEN Raises("TypeError")
    ELSE LET env == [i \in 1..Len(args) |-> args[i].data]
             res == [j \in 1..Len(link.outputs) |-> Perform(link.outputs[j], env)]
         IN  IF \E j \in 1..Len(res) : res[j].error THEN Raises("ValueError")
             ELSE Returns([j \in 1..Len(res) |-> res[j].data])

\* obj(*args) for whatever the name is bound to
Call(obj, args) ==
    IF obj.kind = "theano.Function" THEN Function_call(obj, args)
    ELSE IF obj.kind = "chainer.Link" /\ obj.class = "TheanoFunction"
         THEN TheanoFunction_call(obj, args)
    ELSE IF obj.kind = "chainer.Link" THEN Link_call(obj, args[1])
    ELSE Raises("TypeError")

----------------------------------------------------------------------------
(* Statements.  r is the running state of a cell's execution: the namespace, *)
(* the warning registry, the error raised so far and what was printed.       *)

\* Faulty variant: a name once bound is never rebound.
Assign_setdefault(r, name, v) ==
    IF r.ns[name].kind = "unbound" THEN [r EXCEPT !.ns[name] = v] ELSE r
Assign(r, name, v) == [r EXCEPT !.ns[name] = v]
Raise(r, e) == [r EXCEPT !.error = e]

\* v.shape: of an array, of a chainer Variable (the shape of its array), of a
\* Theano symbol (itself a symbol)
HasShape(v) ==
    v.kind \in {"numpy.ndarray", "chainer.variable.Variable", "TensorVariable"}
Shape(v) ==
    IF v.kind = "numpy.ndarray" THEN v.shape
    ELSE IF v.kind = "chainer.variable.Variable" THEN v.array.shape
    ELSE <<"Shape.0">>

\* A statement that reads an unbound name raises NameError.
Reading(r, names, result) ==
    IF \E n \in names : ~Bound(r.ns, n) THEN Raise(r, "NameError") ELSE result

\* name = obj(args)
AssignCall(r, name, obj, args) ==
    LET c == Call(obj, args)
    IN  IF c.error = "none" THEN Assign(r, name, c.value) ELSE Raise(r, c.error)

\* chainer.utils.experimental: warnings.warn(..., FutureWarning), which the default
\* filter shows once per location
experimental(r, api_name) ==
    IF api_name \in r.registry THEN r
    ELSE [r EXCEPT !.registry = @ \cup {api_name},
                   !.stderr = Append(@, "FutureWarning: " \o api_name \o " is experimental.")]

Exec(s, r, l) ==
    CASE s = "import numpy as np" -> Assign(r, "np", Module("numpy"))
      [] s = "import theano" -> Assign(r, "theano", Module("theano"))
      [] s = "import theano.tensor as T" -> Assign(r, "T", Module("theano.tensor"))
      [] s = "import chainer" -> Assign(r, "chainer", Module("chainer"))
      [] s = "import chainer.functions as F" -> Assign(r, "F", Module("chainer.functions"))
      [] s = "import chainer.links as L" -> Assign(r, "L", Module("chainer.links"))
      [] s = "class TheanoConvolutionLayer(object):" ->
            Assign(r, "TheanoConvolutionLayer", Class("TheanoConvolutionLayer"))
      [] s = "batchsize = 32" -> Assign(r, "batchsize", PyInt(l.image[1]))
      [] s = "input_shape = (batchsize, 1, 28, 28)" ->
            Reading(r, {"batchsize"},
                Assign(r, "input_shape",
                    Tuple(<<r.ns["batchsize"].value, l.image[2], l.image[3], l.image[4]>>)))
      [] s = "filter_shape = (6, 1, 5, 5)" -> Assign(r, "filter_shape", Tuple(l.filter))
      [] s = "x = T.fmatrix('x')" ->
            Reading(r, {"T"}, Assign(r, "x", TensorVariable("fmatrix", <<>>, 2, "x")))
      [] s = "input = x.reshape(input_shape)" ->
            Reading(r, {"x", "input_shape"},
                Assign(r, "input",
                    TensorVariable("reshape", <<r.ns["x"], r.ns["input_shape"]>>,
                                   Len(r.ns["input_shape"].value), <<>>)))
      [] s = "conv = TheanoConvolutionLayer(input, filter_shape, input_shape)" ->
            \* the names of the call, then the globals np, theano, T of __init__
            Reading(r, {"TheanoConvolutionLayer", "input", "filter_shape", "input_shape"},
                Reading(r, {"np", "theano", "T"},
                    Assign(r, "conv",
                        TheanoConvolutionLayer_init(r.ns["input"],
                            r.ns["filter_shape"].value, r.ns["input_shape"].value))))
      [] s = "f = theano.function([input], conv.output)" ->
            Reading(r, {"theano", "input", "conv"},
                Assign(r, "f", theano_function(<<r.ns["input"]>>, r.ns["conv"].output)))
      [] s = "x_data = np.random.rand(32, 1, 28, 28).astype(np.float32)" ->
            Reading(r, {"np"}, Assign(r, "x_data", Ndarray(l.image)))
      [] s = "y = f(x_data)" ->
            Reading(r, {"f", "x_data"}, AssignCall(r, "y", r.ns["f"], <<r.ns["x_data"]>>))
      [] s = "print(y.shape, type(y))" ->
            Reading(r, {"y"},
                IF ~HasShape(r.ns["y"]) THEN Raise(r, "AttributeError")
                ELSE [r EXCEPT !.stdout = Append(@, <<Shape(r.ns["y"]), r.ns["y"].kind>>)])
      [] s = "class ChainerConvolutionLayer(chainer.Link):" ->
            Reading(r, {"chainer"},
                Assign(r, "ChainerConvolutionLayer", Class("ChainerConvolutionLayer")))
      [] s = "chainer_conv = ChainerConvolutionLayer(filter_shape)" ->
            Reading(r, {"ChainerConvolutionLayer", "filter_shape"},
                Reading(r, {"chainer"},
                    Assign(r, "chainer_conv",
                        ChainerConvolutionLayer_init(r.ns["filter_shape"].value))))
      [] s = "y = chainer_conv(x_data)" ->
            Reading(r, {"chainer_conv", "x_data"},
                Reading(r, {"F"},
                    AssignCall(r, "y", r.ns["chainer_conv"], <<r.ns["x_data"]>>)))
      [] s = "print(y.shape, type(y), type(y.array))" ->
            Reading(r, {"y"},
                IF r.ns["y"].kind # "chainer.variable.Variable" THEN Raise(r, "AttributeError")
                ELSE [r EXCEPT !.stdout = Append(@,
                        <<Shape(r.ns["y"]), r.ns["y"].kind, r.ns["y"].array.kind>>)])
      [] s = "conv_link = L.Convolution2D(in_channels=1, out_channels=6, ksize=(5, 5))" ->
            Reading(r, {"L"},
                Assign(r, "conv_link",
                    Convolution2D_init(l.filter[2], l.filter[1], <<l.filter[3], l.filter[4]>>)))
      [] s = "y = conv_link(x_data)" ->
            Reading(r, {"conv_link", "x_data"},
                AssignCall(r, "y", r.ns["conv_link"], <<r.ns["x_data"]>>))
      [] s = "x = T.fvector()" ->
            Reading(r, {"T"}, Assign(r, "x", TensorVariable("fvector", <<>>, 1, 1)))
      [] s = "y = T.fvector()" ->
            Reading(r, {"T"}, Assign(r, "y", TensorVariable("fvector", <<>>, 1, 2)))
      [] s = "z = x + y" ->
            Reading(r, {"x", "y"},
                Assign(r, "z", tensor_add(r.ns["x"], r.ns["y"])))
      [] s = "w = x - y" ->
            Reading(r, {"x", "y"},
                Assign(r, "w", tensor_sub(r.ns["x"], r.ns["y"])))
      [] s = "f = L.TheanoFunction(inputs=[x, y], outputs=[z, w])" ->
            Reading(r, {"L", "x", "y", "z", "w"},
                Assign(experimental(r, "chainer.links.TheanoFunction"), "f",
                    TheanoFunction_init(<<r.ns["x"], r.ns["y"]>>, <<r.ns["z"], r.ns["w"]>>)))
      \* the class body ends in "for theano_function ": the source does not parse
      [] s = "class MyNetworkWithTheanoConvolution(chainer.Chain):" -> Raise(r, "SyntaxError")
      [] OTHER -> Raise(r, "SyntaxError")

\* Faulty variant: the statements after the one that raised are executed too.
RECURSIVE Run_continue(_, _, _, _)
Run_continue(source, i, r, l) ==
    IF i > Len(source) THEN r
    ELSE Run_continue(source, i + 1, Exec(source[i], r, l), l)

\* The statements of a cell, in order, until one raises.
RECURSIVE Run(_, _, _, _)
Run(source, i, r, l) ==
    IF i > Len(source) \/ r.error # "none" THEN r
    ELSE Run(source, i + 1, Exec(source[i], r, l), l)

----------------------------------------------------------------------------
(* The code cells of the notebook, in document order: the recorded execution *)
(* count (0 for null), the recorded outputs and the source.                   *)

cells == <<
    [execution_count |-> 1, stdout |-> <<>>, stderr |-> <<>>,
     source |-> <<"import numpy as np">>],
    [execution_count |-> 2, stdout |-> <<>>, stderr |-> <<>>,
     source |-> <<"import theano", "import theano.tensor as T">>],
    [execution_count |-> 3, stdout |-> <<>>, stderr |-> <<>>,
     source |-> <<"import chainer", "import chainer.functions as F",
                  "import chainer.links as L">>],
    [execution_count |-> 4, stdout |-> <<>>, stderr |-> <<>>,
     source |-> <<"class TheanoConvolutionLayer(object):">>],
    [execution_count |-> 12, stdout |-> <<>>, stderr |-> <<>>,
     source |-> <<"batchsize = 32",
                  "input_shape = (batchsize, 1, 28, 28)",
                  "filter_shape = (6, 1, 5, 5)",
                  "x = T.fmatrix('x')",
                  "input = x.reshape(input_shape)",
                  "conv = TheanoConvolutionLayer(input, filter_shape, input_shape)",
                  "f = theano.function([input], conv.output)">>],
    [execution_count |-> 13,
     stdout |-> << <<<<32, 6, 24, 24>>, "numpy.ndarray">> >>, stderr |-> <<>>,
     source |-> <<"x_data = np.random.rand(32, 1, 28, 28).astype(np.float32)",
                  "y = f(x_data)",
                  "print(y.shape, type(y))">>],
    [execution_count |-> 14, stdout |-> <<>>, stderr |-> <<>>,
     source |-> <<"class ChainerConvolutionLayer(chainer.Link):">>],
    [execution_count |-> 15,
     stdout |-> << <<<<32, 6, 24, 24>>, "chainer.variable.Variable", "numpy.ndarray">> >>,
     stderr |-> <<>>,
     source |-> <<"chainer_conv = ChainerConvolutionLayer(filter_shape)",
                  "y = chainer_conv(x_data)",
                  "print(y.shape, type(y), type(y.array))">>],
    [execution_count |-> 18,
     stdout |-> << <<<<32, 6, 24, 24>>, "chainer.variable.Variable", "numpy.ndarray">> >>,
     stderr |-> <<>>,
     source |-> <<"conv_link = L.Convolution2D(in_channels=1, out_channels=6, ksize=(5, 5))",
                  "y = conv_link(x_data)",
                  "print(y.shape, type(y), type(y.array))">>],
    [execution_count |-> 20, stdout |-> <<>>,
     stderr |-> <<"FutureWarning: chainer.links.TheanoFunction is experimental.">>,
     source |-> <<"x = T.fvector()", "y = T.fvector()", "z = x + y", "w = x - y",
                  "f = L.TheanoFunction(inputs=[x, y], outputs=[z, w])">>],
    \* never executed; the body of __call__ ends in the incomplete statement
    \* "for theano_function "
    [execution_count |-> 0, stdout |-> <<>>, stderr |-> <<>>,
     source |-> <<"class MyNetworkWithTheanoConvolution(chainer.Chain):">>] >>

----------------------------------------------------------------------------
(* The session *)

\* Executing cell c: the kernel counts the execution, runs the statements and
\* keeps whatever they bound before an error.
RunCell(c) ==
    /\ execution_count < MaxExec
    /\ LET r == Run(cells[c].source, 1,
                    [ns |-> ns, registry |-> registry, error |-> "none",
                     stdout |-> <<>>, stderr |-> <<>>], lit)
       IN  /\ ns' = r.ns
           /\ registry' = r.registry
           /\ outputs' = [error |-> r.error, stdout |-> r.stdout, stderr |-> r.stderr]
    /\ execution_count' = execution_count + 1
    /\ UNCHANGED lit

ImportNumpy == RunCell(1) /\ In' = 1
ImportTheano == RunCell(2) /\ In' = 2
ImportChainer == RunCell(3) /\ In' = 3
DefineTheanoConvolutionLayer == RunCell(4) /\ In' = 4
BuildTheanoConvolution == RunCell(5) /\ In' = 5
CallTheanoConvolution == RunCell(6) /\ In' = 6
DefineChainerConvolutionLayer == RunCell(7) /\ In' = 7
CallChainerConvolution == RunCell(8) /\ In' = 8
CallConvolution2D == RunCell(9) /\ In' = 9
WrapTheanoFunction == RunCell(10) /\ In' = 10
DefineMyNetwork == RunCell(11) /\ In' = 11

\* f(a, b) evaluated in the session, for the vectors a, b of lit: the use of
\* the link that the notebook describes after wrapping the Theano function
CallTheanoFunction ==
    /\ execution_count < MaxExec
    /\ LET c == IF Bound(ns, "f") THEN Call(ns["f"], <<Vector(lit.a), Vector(lit.b)>>)
                ELSE Raises("NameError")
       IN  outputs' = [error |-> c.error,
                       stdout |-> IF c.error = "none" THEN <<c.value>> ELSE <<>>,
                       stderr |-> <<>>]
    /\ execution_count' = execution_count + 1
    /\ In' = Len(cells) + 1
    /\ UNCHANGED <<ns, registry, lit>>

\* The state of the kernel of a fresh session after the cells cs ran in order.
RECURSIVE Session(_, _, _, _)
Session(cs, i, r, l) ==
    IF i > Len(cs) THEN r
    ELSE Session(cs, i + 1,
             Run(cells[cs[i]].source, 1, [r EXCEPT !.error = "none", !.stdout = <<>>, !.stderr = <<>>], l),
             l)

After(cs, l) ==
    LET r == Session(cs, 1,
                 [ns |-> [n \in Names |-> Unbound], registry |-> {}, error |-> "none",
                  stdout |-> <<>>, stderr |-> <<>>], l)
    IN  /\ ns = r.ns
        /\ registry = r.registry
        /\ outputs = [error |-> r.error, stdout |-> r.stdout, stderr |-> r.stderr]
        /\ execution_count = Len(cs)
        /\ In = IF cs = <<>> THEN 0 ELSE cs[Len(cs)]
        /\ lit = l

\* A fresh kernel, nothing bound and nothing executed, on the notebook as it is.
Init == After(<<>>, NotebookLit)

Next ==
    \/ ImportNumpy
    \/ ImportTheano
    \/ ImportChainer
    \/ DefineTheanoConvolutionLayer
    \/ BuildTheanoConvolution
    \/ CallTheanoConvolution
    \/ DefineChainerConvolutionLayer
    \/ CallChainerConvolution
    \/ CallConvolution2D
    \/ WrapTheanoFunction
    \/ DefineMyNetwork

Spec == Init /\ [][Next]_vars

\* The convolution cells on images and filters of any size: the session after
\* the imports and the two class definitions, then the four convolution cells.
InitConv == \E l \in ValidLit \cup {NotebookLit} : After(<<1, 2, 3, 4, 7>>, l)

NextConv ==
    \/ BuildTheanoConvolution
    \/ CallTheanoConvolution
    \/ CallChainerConvolution
    \/ CallConvolution2D

SpecConv == InitConv /\ [][NextConv]_vars

\* The wrapped Theano function on vectors: the session after the imports of
\* theano and chainer, then the wrapping cell and calls of the link.
InitTheanoFunction == \E l \in VectorLit : After(<<2, 3>>, l)

NextTheanoFunction ==
    \/ WrapTheanoFunction
    \/ CallTheanoFunction

SpecTheanoFunction == InitTheanoFunction /\ [][NextTheanoFunction]_vars

----------------------------------------------------------------------------
(* Properties *)

Ran(c) == In = c /\ outputs.error = "none"
Imported(n) == Bound(n, "np") /\ Bound(n, "T") /\ Bound(n, "L")
IsFunction(v) == v.kind = "theano.Function"
IsTheanoFunction(v) == v.kind = "chainer.Link" /\ v.class = "TheanoFunction"

\* C1: with stride 1 and no padding an image (N,C,H,W) and a filter (O,C,kh,kw)
\* give an output of shape (N,O,H-kh+1,W-kw+1) from each of the three operators:
\* the compiled Theano function f, ChainerConvolutionLayer and L.Convolution2D;
\* for the notebook's (32,1,28,28) and (6,1,5,5) that is (32,6,24,24).
C1_OutputShape ==
    LET shape == <<lit.image[1], lit.filter[1],
                   lit.image[3] - lit.filter[3] + 1, lit.image[4] - lit.filter[4] + 1>>
    IN  /\ (In = 6 /\ IsFunction(ns["f"])) =>
              /\ outputs.error = "none"
              /\ ns["y"].kind = "numpy.ndarray" /\ ns["y"].shape = shape
              /\ outputs.stdout = <<<<shape, "numpy.ndarray">>>>
        /\ (In = 8 /\ Bound(ns, "filter_shape") /\ Bound(ns, "x_data")) =>
              /\ outputs.error = "none"
              /\ ns["y"].array.shape = shape
              /\ outputs.stdout = <<<<shape, "chainer.variable.Variable", "numpy.ndarray">>>>
        /\ (In = 9 /\ Bound(ns, "x_data")) =>
              /\ outputs.error = "none"
              /\ ns["y"].array.shape = shape
              /\ outputs.stdout = <<<<shape, "chainer.variable.Variable", "numpy.ndarray">>>>
        /\ (lit = NotebookLit /\ In \in {6, 8, 9} /\ outputs.error = "none") =>
              outputs.stdout[1][1] = <<32, 6, 24, 24>>

C1_Witness ==
    /\ lit = NotebookLit /\ Ran(9)
    /\ IsFunction(ns["f"]) /\ Bound(ns, "chainer_conv")
    /\ ns["y"].array.shape = <<32, 6, 24, 24>>

\* C2 as stated: once the imports are done, every cell succeeds whatever other
\* cells were executed before it (the last, incomplete cell left aside).
C2_Independent ==
    [][(In' \in 4..10 /\ Imported(ns)) => outputs'.error = "none"]_vars

\* C2 amended: the cells share the namespace of the session.  Once the imports
\* are done, the two class definitions and the TheanoFunction cell succeed
\* whatever ran before; the cell compiling f succeeds exactly when
\* TheanoConvolutionLayer is defined, y = f(x_data) exactly when f is the
\* compiled operator, the ChainerConvolutionLayer cell exactly when the class,
\* filter_shape and x_data are bound, the Convolution2D cell exactly when x_data
\* is bound; a cell that succeeds prints its recorded output, and the last cell
\* never succeeds.
C2_DependsOnEarlierCells ==
    [][Imported(ns) =>
        /\ In' \in {4, 7, 10} => outputs'.error = "none"
        /\ In' = 5 => (outputs'.error = "none" <=> Bound(ns, "TheanoConvolutionLayer"))
        /\ In' = 6 => (outputs'.error = "none" <=> IsFunction(ns["f"]))
        /\ In' = 8 => (outputs'.error = "none" <=>
                          /\ Bound(ns, "ChainerConvolutionLayer")
                          /\ Bound(ns, "filter_shape")
                          /\ Bound(ns, "x_data"))
        /\ In' = 9 => (outputs'.error = "none" <=> Bound(ns, "x_data"))
        /\ In' = 11 => outputs'.error # "none"
        /\ (In' \in 4..10 /\ outputs'.error = "none") =>
              outputs'.stdout = cells[In'].stdout
        /\ (In' \in 4..10 /\ outputs'.error # "none") =>
              outputs'.error = "NameError" \/ (In' = 6 /\ IsTheanoFunction(ns["f"]))
    ]_vars

C2_Witness ==
    /\ Ran(8) /\ outputs.stdout = cells[8].stdout
    /\ ns["chainer_conv"].W.shape = ns["filter_shape"].value

\* C3: constructing TheanoConvolutionLayer and compiling f only describe the
\* computation: the cell binds symbols and the operator, prints nothing and
\* produces no array.  An array other than the input x_data appears only as y,
\* by the cell calling f, and only when f is the compiled operator; before f has
\* been compiled that cell fails and leaves y as it was.
C3_GraphBeforeExecution ==
    [][/\ (In' = 5 /\ outputs'.error = "none") =>
              /\ ns'["x"].kind = "TensorVariable" /\ ns'["input"].kind = "TensorVariable"
              /\ ns'["conv"].output.kind = "TensorVariable"
              /\ IsFunction(ns'["f"]) /\ ns'["f"].output = ns'["conv"].output
              /\ outputs'.stdout = <<>>
       /\ In' = 5 => \A n \in Names : ns'[n].kind = "numpy.ndarray" => ns'[n] = ns[n]
       /\ \A n \in Names \ {"x_data"} :
              (ns'[n].kind = "numpy.ndarray" /\ ns'[n] # ns[n]) =>
                  n = "y" /\ In' = 6 /\ IsFunction(ns["f"])
       /\ (In' = 6 /\ ~IsFunction(ns["f"])) =>
              outputs'.error # "none" /\ ns'["y"] = ns["y"]
    ]_vars

C3_Witness ==
    /\ Ran(6) /\ ns["y"].kind = "numpy.ndarray"
    /\ IsFunction(ns["f"]) /\ ns["f"].output.kind = "TensorVariable"

\* C4: ChainerConvolutionLayer(filter_shape) and L.Convolution2D(in_channels=C,
\* out_channels=O, ksize=(kh,kw)) hold a weight of shape (O,C,kh,kw) and a bias
\* of length O, and for the same input both return a chainer Variable whose
\* array is a numpy.ndarray of the same shape.
C4_SameOperator ==
    /\ (Bound(ns, "chainer_conv") /\ Bound(ns, "conv_link")) =>
          /\ ns["chainer_conv"].W.shape = lit.filter
          /\ ns["conv_link"].W.shape = lit.filter
          /\ ns["chainer_conv"].b.shape = <<lit.filter[1]>>
          /\ ns["conv_link"].b.shape = <<lit.filter[1]>>
    /\ (Bound(ns, "chainer_conv") /\ Bound(ns, "conv_link") /\ Bound(ns, "x_data")) =>
          LET p == Call(ns["chainer_conv"], <<ns["x_data"]>>)
              q == Call(ns["conv_link"], <<ns["x_data"]>>)
          IN  /\ p.error = "none" /\ q.error = "none"
              /\ p.value.kind = "chainer.variable.Variable"
              /\ p.value.array.kind = "numpy.ndarray"
              /\ q.value = p.value
    /\ (In \in {8, 9} /\ outputs.error = "none" /\ Bound(ns, "chainer_conv")
            /\ Bound(ns, "conv_link")) =>
          ns["y"] = Call(ns["chainer_conv"], <<ns["x_data"]>>).value

C4_Witness ==
    /\ Ran(9) /\ Bound(ns, "chainer_conv")
    /\ lit.filter[1] # lit.filter[2] /\ lit.filter[3] # lit.filter[4]
    /\ ns["conv_link"].W.shape = ns["chainer_conv"].W.shape

\* C5 as stated: with chainer imported and f the wrapped Theano function, the
\* cell defining MyNetworkWithTheanoConvolution defines the class.
C5_NetworkDefined ==
    (In = 11 /\ Bound(ns, "chainer") /\ Bound(ns, "f") /\ IsTheanoFunction(ns["f"])) =>
        /\ outputs.error = "none"
        /\ ns["MyNetworkWithTheanoConvolution"].kind = "class"

\* The names each cell assigns, in the order of its assignments.
C6_Targets ==
    << <<"np">>, <<"theano", "T">>, <<"chainer", "F", "L">>, <<"TheanoConvolutionLayer">>,
       <<"batchsize", "input_shape", "filter_shape", "x", "input", "conv", "f">>,
       <<"x_data", "y">>, <<"ChainerConvolutionLayer">>, <<"chainer_conv", "y">>,
       <<"conv_link", "y">>, <<"x", "y", "z", "w", "f">>,
       <<"MyNetworkWithTheanoConvolution">> >>

\* C6: an error aborts the cell and is what the cell reports: nothing is
\* printed, the names assigned before the failing statement are bound, the later
\* ones and every name the cell does not assign keep their values.  Calling f
\* with one array when f is the two-input link fails and leaves y unchanged; the
\* TheanoFunction cell without chainer imported binds x, y, z, w and leaves f
\* unchanged.  The FutureWarning is no error: the cell that shows it binds f.
C6_NoRecovery ==
    [][In' \in 1..11 =>
        LET t == C6_Targets[In']
        IN  /\ \A n \in Names \ {t[i] : i \in 1..Len(t)} : ns'[n] = ns[n]
            /\ outputs'.error = "none" => \A i \in 1..Len(t) : Bound(ns', t[i])
            /\ outputs'.error # "none" =>
                  /\ outputs'.stdout = <<>>
                  /\ \E k \in 0..(Len(t) - 1) :
                        /\ \A i \in 1..k : Bound(ns', t[i])
                        /\ \A i \in (k + 1)..Len(t) : ns'[t[i]] = ns[t[i]]
            /\ (In' = 6 /\ Bound(ns, "np") /\ IsTheanoFunction(ns["f"])) =>
                  /\ outputs'.error # "none"
                  /\ Bound(ns', "x_data") /\ ns'["y"] = ns["y"]
            /\ (In' = 10 /\ Bound(ns, "T") /\ ~Bound(ns, "L")) =>
                  /\ outputs'.error = "NameError"
                  /\ \A n \in {"x", "y", "z", "w"} : ns'[n].kind = "TensorVariable"
                  /\ ns'["f"] = ns["f"]
            /\ (In' = 10 /\ outputs'.stderr # <<>>) =>
                  /\ outputs'.error = "none" /\ IsTheanoFunction(ns'["f"])
                  /\ outputs'.stderr = cells[10].stderr
            /\ (In' = 10 /\ Bound(ns, "T") /\ Bound(ns, "L")) =>
                  outputs'.error = "none" /\ IsTheanoFunction(ns'["f"])
    ]_vars

C6_Witness ==
    /\ In = 10 /\ outputs.error = "NameError"
    /\ ns["w"].kind = "TensorVariable" /\ IsFunction(ns["f"])

\* C7: the link wraps a graph with exactly two vector inputs and two outputs and
\* has no parameter; applied to two vectors a, b of equal length it returns
\* (a + b, a - b) elementwise, in this order.
C7_SumAndDifference ==
    /\ Bound(ns, "f") =>
          /\ IsTheanoFunction(ns["f"])
          /\ Len(ns["f"].inputs) = 2 /\ Len(ns["f"].outputs) = 2
          /\ \A i \in 1..2 : ns["f"].inputs[i].op = "fvector" /\ ns["f"].inputs[i].ndim = 1
          /\ ns["f"].inputs[1] # ns["f"].inputs[2]
          /\ ns["f"].params = <<>>
    /\ (In = Len(cells) + 1 /\ Bound(ns, "f") /\ Len(lit.a) = Len(lit.b)) =>
          /\ outputs.error = "none"
          /\ outputs.stdout = << << [i \in 1..Len(lit.a) |-> lit.a[i] + lit.b[i]],
                                    [i \in 1..Len(lit.a) |-> lit.a[i] - lit.b[i]] >> >>

C7_Witness ==
    /\ In = Len(cells) + 1 /\ outputs.error = "none"
    /\ lit.a = <<0, 1>> /\ lit.b = <<1, 1>>
    /\ outputs.stdout = << << <<1, 2>>, <<-1, 0>> >> >>

\* C8: the cells run one at a time in one session and share its namespace.  The
\* TheanoFunction cell rebinds x, y and f: after it x and y are vector symbols
\* and f is the link.  y = f(x_data) gives the (32,6,24,24) result only while f
\* is the compiled operator: f becomes that only by the cell compiling it and
\* stops being that by the TheanoFunction cell, after which the call fails and
\* leaves y alone.  The recorded execution counts 1,2,3,4,12,13,14,15,18,20
\* increase in document order; the last cell has none and its source does not
\* parse.
C8_SharedNamespace ==
    [][/\ execution_count' = execution_count + 1
       /\ (In' = 10 /\ outputs'.error = "none") =>
              /\ ns'["x"].op = "fvector" /\ ns'["y"].op = "fvector"
              /\ IsTheanoFunction(ns'["f"])
       /\ (In' = 6 /\ outputs'.error = "none") =>
              /\ IsFunction(ns["f"])
              /\ ns'["y"].shape = <<32, 6, 24, 24>>
              /\ outputs'.stdout = <<<<<<32, 6, 24, 24>>, "numpy.ndarray">>>>
       /\ (IsFunction(ns'["f"]) /\ ~IsFunction(ns["f"])) => In' = 5
       /\ (IsFunction(ns["f"]) /\ ~IsFunction(ns'["f"])) => In' = 10
       /\ (In' = 5 /\ outputs'.error = "none") =>
              ns'["x"].op = "fmatrix" /\ IsFunction(ns'["f"])
       /\ (In' = 6 /\ IsTheanoFunction(ns["f"])) =>
              outputs'.error # "none" /\ ns'["y"] = ns["y"]
       /\ In' = 11 => outputs'.error = "SyntaxError" /\ ns' = ns
       /\ [i \in 1..Len(cells) |-> cells[i].execution_count]
              = <<1, 2, 3, 4, 12, 13, 14, 15, 18, 20, 0>>
       /\ \A i, j \in 1..10 : i < j => cells[i].execution_count < cells[j].execution_count
    ]_vars

C8_Witness ==
    /\ In = 6 /\ outputs.error # "none"
    /\ IsTheanoFunction(ns["f"]) /\ ns["y"].kind = "TensorVariable"
    /\ Bound(ns, "conv")

====
